---- MODULE Spec2Model ----
(***************************************************************************)
(* Change-detection core of the Notion polling scripts:                    *)
(*   nightingale/notion_os_sweeper.mjs        (the sweeper)                *)
(*   nightingale/notion_comment_watcher.mjs   (the comment watcher)        *)
(*   unnamed/part_001                         (the comment watcher v2)     *)
(* Every await of a script is one step: the remote workspace may change    *)
(* between two gateway calls of a run.                                     *)
(***************************************************************************)
EXTENDS Integers, Sequences, FiniteSets

\* ------------------------------------------------------------------ bounds
\* The clock runs 0..MaxTime; several events may carry the same timestamp.
MaxTime == 1
\* Item ids 1..NumTaskItems live in the Tasks database.
NumTaskItems == 3
\* Remote changes (create, edit, comment) in one behaviour.
MaxRemoteOps == 3
\* Runs of a script in one behaviour.
MaxRuns == 2
\* Comments in the workspace.
MaxComments == 1
\* The program's sizes, scaled down (50, 200, 2000 and '100' in the source).
PAGE_SIZE == 1
MAX_PAGES == 2
SEEN_CAP == 2
COMMENT_PAGE_SIZE == 1
\* requests of one query a faulty gateway may answer with empty pages
MaxRequests == 3
\* The count of a run's gateway calls, and the log of a query's responses,
\* stop growing here (a run behind a sound gateway stays below).
MaxCalls == 16

\* ------------------------------------------------------------ plain values
\* JS null / undefined / a missing field.
Null == -1
\* No start_cursor; the gateway's cursors are offsets >= 1.
NoCursor == 0

Min(a, b) == IF a <= b THEN a ELSE b

Surfaces == <<"Tasks", "EventsQueue", "ImportsQueue">>
SurfaceKeys == {Surfaces[n] : n \in DOMAIN Surfaces}
GroupNames == <<"A", "B", "C", "D">>

\* The item ids of each database.
IdsOf ==
  [k \in SurfaceKeys |->
     IF k = "Tasks" THEN 1..NumTaskItems
     ELSE IF k = "EventsQueue" THEN {NumTaskItems + 1}
     ELSE {NumTaskItems + 2}]
\* The child blocks of the root page (the comment watcher lists them).
RootIds == {NumTaskItems + 3}
AllIds == 1..(NumTaskItems + 3)
\* Items whose payload may lack the timestamp fields.
BareIds == {NumTaskItems + 2}

VARIABLES
  \* the remote workspace and the clock
  now, remote, comments, ops,
  \* configuration and the checkpoint file of the sweeper
  script, env, gateway, file,
  \* main() of the sweeper
  pc, runs, state, lastRunIso, report, surf, results, cursor,
  pidx, out, ccursor, groups, nextState, stdout,
  \* what the run did (for the properties)
  fileAtStart, calls, gwFailed, gwMalformed, wrote, failure, qlog, qdirty, qsnap, qret, qdone,
  committedAt, quiet,
  \* the ids earlier successful runs reported as new (sweeper), and the comment
  \* ids earlier successful runs held in their findings (watchers)
  newBefore, foundBefore,
  \* classifyItem applied to drawn inputs
  cl,
  \* the comment watchers: their state file, the workspace under the root
  \* page, and the locals of their main()
  wfile, wfileAtStart, tree, wstate, sinceIso, lists, work, findings,
  reference, ids, wnext,
  \* the run has sent a request to a database
  scanned

remoteVars == <<now, remote, comments, ops>>
confVars == <<script, env, gateway>>
runVars == <<pc, runs, state, lastRunIso, report, surf, results, cursor,
             pidx, out, ccursor, groups, nextState, stdout>>
histVars == <<fileAtStart, calls, gwFailed, gwMalformed, wrote, failure, qlog, qdirty,
              qsnap, qret, qdone, committedAt, quiet, newBefore>>
watchVars == <<wfile, foundBefore, wfileAtStart, tree, wstate, sinceIso, lists, work, findings,
               reference, ids, wnext>>
vars == <<remoteVars, confVars, file, runVars, histVars, cl, watchVars, scanned>>

\* ------------------------------------------------------ ordered seen maps
\* A JS object { [pageId]: lastSeenIso } keeps its keys in insertion order:
\* a sequence of <<id, timestamp>> pairs with distinct ids.
Keys(m) == {m[n][1] : n \in DOMAIN m}
Lookup(m, id) ==
  IF id \in Keys(m) THEN (CHOOSE e \in {m[n] : n \in DOMAIN m} : e[1] = id)[2]
  ELSE Null
\* cur[id] = v
MapSet(m, id, v) ==
  IF id \in Keys(m)
  THEN [n \in DOMAIN m |-> IF m[n][1] = id THEN <<id, v>> ELSE m[n]]
  ELSE Append(m, <<id, v>>)

\* The comparison the other way round: oldest first.
CompareEntriesAscending(a, b) == IF a[2] < b[2] THEN -1 ELSE IF a[2] > b[2] THEN 1 ELSE 0
\* sort((a, b) => String(b[1]).localeCompare(String(a[1]))): b's timestamp
\* against a's; negative keeps a before b.  Timestamps are ISO strings of one
\* format, so the string order is the order of the instants.
CompareEntries(a, b) == IF b[2] < a[2] THEN -1 ELSE IF b[2] > a[2] THEN 1 ELSE 0
\* Array.prototype.sort is stable: an entry goes behind every entry it does
\* not have to precede.
RECURSIVE SortEntries(_)
SortEntries(m) ==
  IF m = <<>> THEN <<>>
  ELSE LET front == SortEntries(SubSeq(m, 1, Len(m) - 1))
           e == m[Len(m)]
           stay == {n \in 0..Len(front) :
                      \A j \in 1..n : CompareEntries(front[j], e) <= 0}
           at == CHOOSE n \in stay : \A j \in stay : j <= n
       IN SubSeq(front, 1, at) \o <<e>> \o SubSeq(front, at + 1, Len(front))
\* .slice(0, n)
Slice(m, n) == SubSeq(m, 1, Min(n, Len(m)))

\* ----------------------------------------------------- the remote workspace
NoItem == [exists |-> FALSE, created |-> Null, edited |-> Null, bare |-> FALSE]
\* What a query or listing returns for item i.
PagePayload(i) ==
  [object |-> IF i \in RootIds THEN "block" ELSE "page",
   id |-> i,
   created_time |-> IF remote[i].bare THEN Null ELSE remote[i].created,
   last_edited_time |-> IF remote[i].bare THEN Null ELSE remote[i].edited]
\* A filter that asked for edits strictly after the watermark.
FilteredStrictlyAfter(k, since) ==
  {i \in IdsOf[k] : remote[i].exists /\ (since = Null \/ remote[i].edited > since)}
\* filter: last_edited_time on_or_after since (no filter when since is null)
Filtered(k, since) ==
  {i \in IdsOf[k] : remote[i].exists /\ (since = Null \/ remote[i].edited >= since)}
\* sorts: last_edited_time descending (equal timestamps by id)
RECURSIVE SortedIds(_)
SortedIds(S) ==
  IF S = {} THEN <<>>
  ELSE LET m == CHOOSE i \in S : \A j \in S :
                  \/ remote[i].edited > remote[j].edited
                  \/ remote[i].edited = remote[j].edited /\ i <= j
       IN <<m>> \o SortedIds(S \ {m})
\* One page of a list, from an offset cursor.
PageOf(all, size, cur) ==
  LET upto == Min(cur + size, Len(all))
  IN [ok |-> TRUE,
      results |-> IF upto > cur THEN SubSeq(all, cur + 1, upto) ELSE <<>>,
      has_more |-> upto < Len(all),
      next_cursor |-> IF upto < Len(all) THEN upto ELSE NoCursor,
      malformed |-> FALSE]
\* A response that is not res.ok: its body holds an error message only.
ErrorResponse ==
  [ok |-> FALSE, results |-> <<>>, has_more |-> FALSE, next_cursor |-> NoCursor,
   malformed |-> FALSE]
\* A response that is res.ok with a body that is not JSON, or JSON without
\* results and has_more: notionFetch returns { _raw: text } or the object as
\* it is, and the caller reads data.results || [] and a falsy data.has_more.
MalformedResponse ==
  [ok |-> TRUE, results |-> <<>>, has_more |-> FALSE, next_cursor |-> NoCursor,
   malformed |-> TRUE]
\* What a faulty gateway may answer besides.
Faults == IF gateway = "faulty" THEN {MalformedResponse} ELSE {}
\* A faulty gateway may also answer a continued query with a page that holds
\* no results and says has_more, with the cursor it was asked with.
EmptyPages(cur) ==
  IF gateway = "faulty" /\ cur # NoCursor /\ Len(qlog) < MaxRequests
  THEN {[ok |-> TRUE, results |-> <<>>, has_more |-> TRUE, next_cursor |-> cur,
         malformed |-> FALSE]}
  ELSE {}
\* A looping gateway answers any listing request, as often as it is asked,
\* with a page that holds no results and says has_more, with no next_cursor
\* or with a cursor it has given before.
LoopingPages ==
  IF gateway = "looping"
  THEN {[ok |-> TRUE, results |-> <<>>, has_more |-> TRUE, next_cursor |-> c,
         malformed |-> FALSE] : c \in 0..MAX_PAGES}
  ELSE {}
\* POST /v1/data_sources/{id}/query
QueryResponses(k, since, size, cur) ==
  LET idsIn == SortedIds(Filtered(k, since))
      all == [n \in DOMAIN idsIn |-> PagePayload(idsIn[n])]
  IN {PageOf(all, size, cur), ErrorResponse} \cup Faults \cup EmptyPages(cur)
        \cup LoopingPages
\* GET /v1/comments?block_id=...
CommentsOf(b) == SelectSeq(comments, LAMBDA c : c.block = b)
CommentResponses(b, size, cur) ==
  {PageOf(CommentsOf(b), size, cur), ErrorResponse} \cup Faults \cup LoopingPages
\* GET /v1/databases/{id}: with or without a data source id, or an error.
DatabaseResponses ==
  {[ok |-> TRUE, dataSourceId |-> TRUE, malformed |-> FALSE],
   [ok |-> TRUE, dataSourceId |-> FALSE, malformed |-> FALSE],
   [ok |-> FALSE, dataSourceId |-> FALSE, malformed |-> FALSE]}

\* ------------------------------------------ the sweeper's pure functions
\* A fetch that did not look at res.ok.
NotionFetchNeverThrows(res) == FALSE
\* notionFetch: if (!res.ok) throw
NotionFetchThrows(res) == ~res.ok
\* page_size: Math.min(PAGE_SIZE, MAX_PAGES - results.length)
PageSizeFor(len) == Min(PAGE_SIZE, MAX_PAGES - len)
\* A query that stopped after its first response.
QueryStopsAfterFirst(data, len) == FALSE
\* queryDataSource goes round again: has_more, a next_cursor, and the while
\* condition results.length < MAX_PAGES.
QueryContinues(data, len) ==
  data.has_more /\ data.next_cursor # NoCursor /\ len < MAX_PAGES
\* cursor = data.next_cursor
NextCursor(data) == data.next_cursor
\* getCommentsSince keeps: !sinceIso || !created || created >= sinceIso
CommentKept(c, since) ==
  since = Null \/ c.created_time = Null \/ c.created_time >= since
\* getCommentsSince goes round again unless !data.has_more
CommentsContinue(data) == data.has_more

\* A classifier that looked at the seen flag before the comments.
classifySeenFirst(page, commentsSince, wasSeen) ==
  IF wasSeen THEN "D"
  ELSE IF Len(commentsSince) > 0 THEN "C"
  ELSE IF page.created_time # Null /\ page.last_edited_time # Null
          /\ page.created_time = page.last_edited_time THEN "A"
  ELSE "B"
\* A classifier that did not compare the two timestamps.
classifyNeverNew(page, commentsSince, wasSeen) ==
  IF Len(commentsSince) > 0 THEN "C"
  ELSE IF wasSeen THEN "D"
  ELSE "B"
\* A classifier that never looked at the seen flag.
classifyIgnoringSeen(page, commentsSince, wasSeen) ==
  IF Len(commentsSince) > 0 THEN "C"
  ELSE IF page.created_time # Null /\ page.last_edited_time # Null
          /\ page.created_time = page.last_edited_time THEN "A"
  ELSE "B"
\* if (commentsSince.length) 'C'; else if (wasSeen) 'D';
\* else if (created && edited && created === edited) 'A'; else 'B'
classifyItem(page, commentsSince, wasSeen) ==
  LET created == page.created_time
      edited == page.last_edited_time
  IN IF Len(commentsSince) > 0 THEN "C"
     ELSE IF wasSeen THEN "D"
     ELSE IF created # Null /\ edited # Null /\ created = edited THEN "A"
     ELSE "B"

EmptyGroups == [g \in {"A", "B", "C", "D"} |-> <<>>]
EmptySeen == [k \in SurfaceKeys |-> <<>>]
\* extra stands for a top-level field main() does not know, otherSeen for the
\* seenIds map of a surface key that is not in the surface list.
NoState ==
  [lastRunIso |-> Null, hasSeenIds |-> FALSE, seenIds |-> EmptySeen, extra |-> Null,
   otherSeen |-> <<>>]
NoReport == [ranAtIso |-> Null, lastRunIso |-> Null, bySurface |-> <<>>]

\* readJson: JSON.parse of the file's text
ParseJson(f) ==
  [lastRunIso |-> f.lastRunIso, hasSeenIds |-> f.hasSeenIds, seenIds |-> f.seenIds,
   extra |-> f.extra, otherSeen |-> f.otherSeen]
\* writeJson: JSON.stringify(obj, null, 2) + '\n'
StringifyJson(obj) ==
  [kind |-> "json", lastRunIso |-> obj.lastRunIso, hasSeenIds |-> obj.hasSeenIds,
   seenIds |-> obj.seenIds, extra |-> obj.extra, otherSeen |-> obj.otherSeen]
AbsentFile ==
  [kind |-> "absent", lastRunIso |-> Null, hasSeenIds |-> FALSE, seenIds |-> EmptySeen, extra |-> Null,
   otherSeen |-> <<>>]
CorruptFile ==
  [kind |-> "corrupt", lastRunIso |-> Null, hasSeenIds |-> FALSE, seenIds |-> EmptySeen, extra |-> Null,
   otherSeen |-> <<>>]

\* A run that did not load the seen ids.
NoSeenIds(st, k) == {}
\* const seenIds = new Set(Object.keys(state?.seenIds?.[s.seenKey] || {}))
SeenIdsOf(st, k) == IF st.hasSeenIds THEN Keys(st.seenIds[k]) ELSE {}

\* The item main() pushes for page p.
ItemOf(p, group, commentsSlim) ==
  [id |-> p.id, created_time |-> p.created_time,
   last_edited_time |-> p.last_edited_time, group |-> group,
   commentsSinceLastRun |-> commentsSlim]

\* Groups that kept only what is to be reported: an unchanged item is dropped.
PushUnlessD(g, group, item) ==
  IF group = "D" THEN g ELSE [g EXCEPT ![group] = Append(@, item)]
\* items.push(item); groups[group].push(item)
PushItem(g, group, item) == [g EXCEPT ![group] = Append(@, item)]

\* report.bySurface[s.key]
SurfaceReport(k, pages, g) ==
  [key |-> k,
   totals |-> [queriedPages |-> Len(pages), A |-> Len(g["A"]), B |-> Len(g["B"]),
               C |-> Len(g["C"]), D |-> Len(g["D"])],
   groups |-> g]

\* for (const g of ['A','B','C','D']) for (const it of surfaced.groups[g])
ItemsInOrder(g) == g["A"] \o g["B"] \o g["C"] \o g["D"]
\* A commit that stamped every item with the run's instant.
SeenStampRunInstant(it, ranAtIso) == ranAtIso
\* cur[it.id] = it.last_edited_time || report.ranAtIso
SeenStamp(it, ranAtIso) ==
  IF it.last_edited_time # Null THEN it.last_edited_time ELSE ranAtIso
RECURSIVE MergeSeen(_, _, _)
MergeSeen(cur, items, ranAtIso) ==
  IF items = <<>> THEN cur
  ELSE MergeSeen(MapSet(cur, items[1].id, SeenStamp(items[1], ranAtIso)),
                 Tail(items), ranAtIso)
\* keep map bounded: Object.entries(cur).sort(...).slice(0, 2000)
BoundSeen(cur) == Slice(SortEntries(cur), SEEN_CAP)
\* A commit that kept the loaded watermark.
KeepLastRunIso(st, rep) == st.lastRunIso
\* nextState.lastRunIso = report.ranAtIso
NextLastRunIso(st, rep) == rep.ranAtIso
\* nextState.seenIds[s.seenKey] = ... throws when the state has no seenIds
CommitThrows(st) == ~st.hasSeenIds
\* A next state built from the fields main() knows only.
KnownFieldsOnly(st) == [st EXCEPT !.extra = Null, !.otherSeen = <<>>]
\* const nextState = structuredClone(state)
CloneState(st) == st
\* The state main() derives from the loaded state and the report.
NextStateOf(st, rep) ==
  [CloneState(st) EXCEPT
     !.lastRunIso = NextLastRunIso(st, rep),
     !.seenIds = [k \in SurfaceKeys |->
        LET sr == CHOOSE x \in {rep.bySurface[n] : n \in DOMAIN rep.bySurface} : x.key = k
        IN BoundSeen(MergeSeen(st.seenIds[k], ItemsInOrder(sr.groups), rep.ranAtIso))]]
\* The surface loop ends after the last configured surface.
LastSurface(n) == n = Len(Surfaces)

\* ------------------------------------------------- remote changes, clock
Tick ==
  /\ now < MaxTime
  /\ now' = now + 1
  /\ UNCHANGED <<remote, comments, ops, confVars, file, runVars, histVars, cl, watchVars, scanned>>

\* A remote change during an open query of the item's database is recorded,
\* and so is any change since the last commit.
Touch(i) ==
  /\ qdirty' = (qdirty \/ (script = "sweeper" /\ pc = "query" /\ i \in IdsOf[Surfaces[surf]]))
  /\ quiet' = FALSE
  /\ UNCHANGED <<fileAtStart, calls, gwFailed, gwMalformed, wrote, failure, qlog, qsnap, qret, qdone,
                 committedAt, newBefore>>

\* The sweeper never reads a comment's author or the root page's children.
Authors ==
  IF script = "sweeper" THEN {<<FALSE, FALSE>>}
  ELSE {<<FALSE, FALSE>>, <<TRUE, FALSE>>, <<FALSE, TRUE>>}
Creatable == IF script = "watcher" THEN AllIds ELSE AllIds \ RootIds

CreateItem(i) ==
  /\ ops < MaxRemoteOps
  /\ i \in Creatable
  /\ ~remote[i].exists
  /\ \E b \in (IF i \in BareIds THEN BOOLEAN ELSE {FALSE}) :
       remote' = [remote EXCEPT ![i] =
                    [exists |-> TRUE, created |-> now, edited |-> now, bare |-> b]]
  /\ ops' = ops + 1
  /\ Touch(i)
  /\ UNCHANGED <<now, comments, confVars, file, runVars, cl, watchVars, scanned>>

EditItem(i) ==
  /\ ops < MaxRemoteOps
  /\ remote[i].exists
  /\ remote[i].edited < now
  /\ remote' = [remote EXCEPT ![i].edited = now]
  /\ ops' = ops + 1
  /\ Touch(i)
  /\ UNCHANGED <<now, comments, confVars, file, runVars, cl, watchVars, scanned>>

AddComment(i) ==
  /\ ops < MaxRemoteOps
  /\ Len(comments) < MaxComments
  /\ remote[i].exists
  /\ \E a \in Authors :
       comments' = Append(comments,
                     [id |-> Len(comments) + 1, block |-> i, created_time |-> now,
                      fromAdam |-> a[1], mentionsAdam |-> a[2]])
  /\ ops' = ops + 1
  /\ Touch(i)
  /\ UNCHANGED <<now, remote, confVars, file, runVars, cl, watchVars, scanned>>

\* ------------------------------------------------------ sweeper: main()
\* One more gateway call of the run; one more response of the open query.
Counted(n) == IF n < MaxCalls THEN n + 1 ELSE n
Logged(log, x) == IF Len(log) < MaxCalls THEN Append(log, x) ELSE log
\* The locals of main() before they are assigned, and after the process exits.
ClearLocals ==
  /\ state' = NoState
  /\ lastRunIso' = Null
  /\ report' = [ranAtIso |-> Null, lastRunIso |-> Null, bySurface |-> <<>>]
  /\ results' = <<>>
  /\ cursor' = NoCursor
  /\ pidx' = 0
  /\ out' = <<>>
  /\ ccursor' = NoCursor
  /\ groups' = EmptyGroups
  /\ nextState' = NoState
\* What is recorded of the open query, cleared.
ClearQuery ==
  /\ qlog' = <<>>
  /\ qdirty' = FALSE
  /\ qsnap' = {}
  /\ qret' = <<>>
  /\ qdone' = FALSE
\* main().catch: the error is reported and the process exits with status 1.
Throw(kind) ==
  /\ pc' = "failed"
  /\ failure' = kind
  /\ ClearLocals
  /\ ClearQuery

\* A check that found no database id missing.
NoMissingDbIds(e) == {}
\* const missing = surfaces.filter(s => !s.dbId).map(s => s.key)
MissingDbIds(e) == SurfaceKeys \ e.dbIds

\* assertEnv, readJson, the missing-ids check, and the report's header.
StartRun ==
  /\ script = "sweeper"
  /\ pc \in {"idle", "done", "failed"}
  /\ runs < MaxRuns
  /\ runs' = runs + 1
  /\ fileAtStart' = file
  /\ calls' = 0
  /\ gwFailed' = FALSE
  /\ gwMalformed' = FALSE
  /\ wrote' = FALSE
  /\ stdout' = <<>>
  /\ surf' = 1
  /\ IF ~env.apiKey
     THEN Throw("env")
     ELSE IF file.kind # "json"
     THEN \* fs.readFile rejects (no such file) or JSON.parse throws
          Throw("load")
     ELSE IF MissingDbIds(env) # {}
     THEN Throw("config")
     ELSE /\ pc' = "db"
          /\ failure' = "none"
          /\ state' = ParseJson(file)
          /\ lastRunIso' = ParseJson(file).lastRunIso
          /\ report' = [ranAtIso |-> now, lastRunIso |-> ParseJson(file).lastRunIso,
                        bySurface |-> <<>>]
          /\ results' = <<>>
          /\ cursor' = NoCursor
          /\ pidx' = 0
          /\ out' = <<>>
          /\ ccursor' = NoCursor
          /\ groups' = EmptyGroups
          /\ nextState' = NoState
          /\ ClearQuery
  /\ scanned' = (env.apiKey /\ file.kind = "json" /\ MissingDbIds(env) = {})
  /\ UNCHANGED <<remoteVars, confVars, file, committedAt, quiet, newBefore, cl, watchVars>>

\* getDatabaseAndDataSourceId answers; queryDataSource sends its first request.
GetDatabase ==
  /\ script = "sweeper"
  /\ pc = "db"
  /\ \E res \in DatabaseResponses :
       /\ calls' = Counted(calls)
       /\ gwFailed' = (gwFailed \/ ~res.ok)
       /\ gwMalformed' = (gwMalformed \/ res.malformed)
       /\ IF NotionFetchThrows(res) THEN Throw("gateway")
          ELSE IF ~res.dataSourceId THEN Throw("datasource")
          ELSE /\ pc' = "query"
               /\ results' = <<>>
               /\ cursor' = NoCursor
               /\ qlog' = <<>>
               /\ qdirty' = FALSE
               /\ qsnap' = Filtered(Surfaces[surf], lastRunIso)
               /\ qret' = <<>>
               /\ qdone' = FALSE
               /\ UNCHANGED <<failure, state, lastRunIso, report, pidx, out, ccursor,
                              groups, nextState>>
  /\ UNCHANGED <<remoteVars, confVars, file, runs, surf, stdout,
                 fileAtStart, wrote, committedAt, quiet, newBefore, cl, watchVars, scanned>>

\* The surface's report is stored; after the last surface the next state is
\* derived, the report is printed and writeJson is called.
AfterSurface(pages, g) ==
  LET rep == [report EXCEPT !.bySurface =
                Append(@, SurfaceReport(Surfaces[surf], pages, g))]
  IN IF ~LastSurface(surf)
     THEN /\ report' = rep
          /\ surf' = surf + 1
          /\ pc' = "db"
          /\ results' = <<>>
          /\ cursor' = NoCursor
          /\ pidx' = 0
          /\ out' = <<>>
          /\ ccursor' = NoCursor
          /\ groups' = EmptyGroups
          /\ UNCHANGED <<state, lastRunIso, nextState, stdout, failure>>
     ELSE IF CommitThrows(state)
     THEN /\ pc' = "failed"
          /\ failure' = "commit"
          /\ ClearLocals
          /\ UNCHANGED <<surf, stdout>>
     ELSE /\ report' = rep
          /\ nextState' = NextStateOf(state, rep)
          /\ stdout' = Append(stdout, rep)
          /\ pc' = "write"
          /\ results' = <<>>
          /\ cursor' = NoCursor
          /\ pidx' = 0
          /\ out' = <<>>
          /\ ccursor' = NoCursor
          /\ groups' = EmptyGroups
          /\ UNCHANGED <<state, lastRunIso, surf, failure>>

\* A page of the data source query answers.
QueryPage ==
  /\ script = "sweeper"
  /\ pc = "query"
  /\ \E res \in QueryResponses(Surfaces[surf], lastRunIso,
                               PageSizeFor(Len(results)), cursor) :
       /\ calls' = Counted(calls)
       /\ gwFailed' = (gwFailed \/ ~res.ok)
       /\ gwMalformed' = (gwMalformed \/ res.malformed)
       /\ IF NotionFetchThrows(res)
          THEN /\ Throw("gateway")
               /\ UNCHANGED <<surf, stdout>>
          ELSE LET all == results \o res.results
               IN /\ qlog' = Logged(qlog, res.has_more)
                  /\ UNCHANGED <<qdirty, qsnap>>
                  /\ IF QueryContinues(res, Len(all))
                     THEN /\ results' = all
                          /\ cursor' = NextCursor(res)
                          /\ UNCHANGED <<qret, qdone>>
                          /\ UNCHANGED <<pc, failure, state, lastRunIso, report, surf,
                                         nextState, stdout, pidx, out, ccursor, groups>>
                     ELSE /\ qret' = all
                          /\ qdone' = TRUE
                          /\ IF all = <<>>
                             THEN AfterSurface(all, EmptyGroups)
                             ELSE /\ results' = all
                                  /\ cursor' = NoCursor
                                  /\ pidx' = 1
                                  /\ pc' = "comments"
                                  /\ UNCHANGED <<failure, state, lastRunIso, report, surf,
                                                 nextState, stdout, out, ccursor, groups>>
  /\ UNCHANGED <<remoteVars, confVars, file, runs,
                 fileAtStart, wrote, committedAt, quiet, newBefore, cl, watchVars, scanned>>

\* A page of the comment listing of page results[pidx] answers.
CommentsPage ==
  /\ script = "sweeper"
  /\ pc = "comments"
  /\ \E res \in CommentResponses(results[pidx].id, COMMENT_PAGE_SIZE, ccursor) :
       /\ calls' = Counted(calls)
       /\ gwFailed' = (gwFailed \/ ~res.ok)
       /\ gwMalformed' = (gwMalformed \/ res.malformed)
       /\ IF NotionFetchThrows(res)
          THEN /\ Throw("gateway")
               /\ UNCHANGED <<surf, stdout>>
          ELSE LET kept == out \o SelectSeq(res.results,
                                            LAMBDA c : CommentKept(c, lastRunIso))
               IN /\ UNCHANGED <<qlog, qdirty, qsnap, qret, qdone>>
                  /\ IF CommentsContinue(res)
                     THEN /\ out' = kept
                          /\ ccursor' = NextCursor(res)
                          /\ UNCHANGED <<pc, failure, state, lastRunIso, report, surf,
                                         nextState, stdout, results, cursor, pidx, groups>>
                     ELSE LET p == results[pidx]
                              wasSeen == p.id \in SeenIdsOf(state, Surfaces[surf])
                              group == classifyItem(p, kept, wasSeen)
                              g == PushItem(groups, group, ItemOf(p, group, kept))
                          IN IF pidx < Len(results)
                             THEN /\ pidx' = pidx + 1
                                  /\ groups' = g
                                  /\ out' = <<>>
                                  /\ ccursor' = NoCursor
                                  /\ UNCHANGED <<pc, failure, state, lastRunIso, report,
                                                 surf, nextState, stdout, results, cursor>>
                             ELSE AfterSurface(results, g)
  /\ UNCHANGED <<remoteVars, confVars, file, runs,
                 fileAtStart, wrote, committedAt, quiet, newBefore, cl, watchVars, scanned>>

\* The ids of the items a report holds in group A.
NewIds(rep) ==
  UNION {{rep.bySurface[n].groups["A"][j].id : j \in DOMAIN rep.bySurface[n].groups["A"]} :
         n \in DOMAIN rep.bySurface}
\* fs.writeFile(p, text) opens the file truncated and writes the text into it:
\* it completes, fails before anything was touched, or stops (an I/O error, the
\* process killed) with the file empty or holding a prefix of the text.
WriteOutcomes == {"written", "failed", "torn"}
\* writeJson(STATE_PATH, nextState) completes or fails; either way the
\* process ends.
WriteFile ==
  /\ script = "sweeper"
  /\ pc = "write"
  /\ \E outcome \in WriteOutcomes :
       IF outcome = "written"
       THEN /\ file' = StringifyJson(nextState)
            /\ pc' = "done"
            /\ wrote' = TRUE
            /\ committedAt' = report.ranAtIso
            /\ newBefore' = newBefore \cup NewIds(report)
            /\ quiet' = TRUE
            /\ ClearLocals
            /\ ClearQuery
            /\ UNCHANGED failure
       ELSE /\ Throw("write")
            /\ file' = IF outcome = "torn" THEN CorruptFile ELSE file
            /\ UNCHANGED <<wrote, committedAt, quiet, newBefore>>
  /\ UNCHANGED <<remoteVars, confVars, runs, surf, stdout,
                 fileAtStart, calls, gwFailed, gwMalformed, cl, watchVars, scanned>>

\* ------------------------------------------------ the comment watchers
\* The watchers' sizes, scaled down (24 hours, 50 pages, 5000 ids).
LOOKBACK_HOURS_DEFAULT == 1
MAX_PAGES_PER_DB == 2
MAX_COMMENTS_SEEN == 2

\* The fallback of readJsonIfExists: { lastRunIso: null, seenCommentIds: [] }
\* (v2 adds referencePageId: null and discovered ids: null).
WatchFallback ==
  [lastRunIso |-> Null, seenCommentIds |-> <<>>, referencePageId |-> FALSE,
   discovered |-> {}]
ParseWatch(f) ==
  [lastRunIso |-> f.lastRunIso, seenCommentIds |-> f.seenCommentIds,
   referencePageId |-> f.referencePageId, discovered |-> f.discovered]
StringifyWatch(obj) ==
  [kind |-> "json", lastRunIso |-> obj.lastRunIso,
   seenCommentIds |-> obj.seenCommentIds,
   referencePageId |-> obj.referencePageId, discovered |-> obj.discovered]
WAbsentFile ==
  [kind |-> "absent", lastRunIso |-> Null, seenCommentIds |-> <<>>,
   referencePageId |-> FALSE, discovered |-> {}]
WCorruptFile ==
  [kind |-> "corrupt", lastRunIso |-> Null, seenCommentIds |-> <<>>,
   referencePageId |-> FALSE, discovered |-> {}]
\* try { JSON.parse(await fs.readFile(p)) } catch { return fallback }
readJsonIfExists(f, fallback) == IF f.kind = "json" THEN ParseWatch(f) ELSE fallback

\* new Date(Date.now() - hours * 3600_000)
isoMinusHours(hours) == now - hours
\* The env vars main() of the watcher requires.
MissingEnv(e) == (SurfaceKeys \ e.dbIds) \cup (IF e.root THEN {} ELSE {"Root"})
\* page_size: Math.min(50, maxPages - results.length)
WatchPageSize(len) == Min(MAX_PAGES_PER_DB, MAX_PAGES_PER_DB - len)
\* listRecentPagesFromDatabase goes round again
WatchContinues(data, len) ==
  data.has_more /\ data.next_cursor # NoCursor /\ len < MAX_PAGES_PER_DB
\* GET /v1/blocks/{root}/children: the child pages, in the page's order
RootChildren ==
  LET idsIn == SortedIds({i \in RootIds : remote[i].exists})
  IN [n \in DOMAIN idsIn |-> PagePayload(idsIn[n])]
RootResponses(size, cur) == {PageOf(RootChildren, size, cur), ErrorResponse}
\* if (b.last_edited_time && b.last_edited_time >= sinceIso) pages.push(b)
RootKept(b, since) == b.last_edited_time # Null /\ b.last_edited_time >= since
\* const inWindow = created ? (created >= sinceIso) : true
InWindow(c, since) == c.created_time = Null \/ c.created_time >= since
\* v1: inWindow && (fromAdam || mentionsAdam);  v2: inWindow && fromAdam
Reported(c, since) ==
  IF script = "watcher" THEN InWindow(c, since) /\ (c.fromAdam \/ c.mentionsAdam)
  ELSE InWindow(c, since) /\ c.fromAdam
\* The findings of one page: its comments that are not seen and are reported.
FindingsOf(surface, page, list, seen, since) ==
  LET hits == SelectSeq(list, LAMBDA c : c.id \notin seen /\ Reported(c, since))
  IN [n \in DOMAIN hits |->
        [surface |-> surface, pageId |-> page.id, commentId |-> hits[n].id,
         createdTime |-> hits[n].created_time]]
\* Array.from(new Set(list)): first occurrences, in order
RECURSIVE Dedupe(_)
Dedupe(list) ==
  IF list = <<>> THEN <<>>
  ELSE LET front == Dedupe(SubSeq(list, 1, Len(list) - 1))
           e == list[Len(list)]
       IN IF \E n \in DOMAIN front : front[n] = e THEN front ELSE Append(front, e)
\* .slice(-n)
LastN(list, n) == SubSeq(list, Len(list) - Min(n, Len(list)) + 1, Len(list))
\* Array.from(new Set([...seenCommentIds, ...findings ids])).slice(-5000)
NextSeen(seenList, fnd) ==
  LastN(Dedupe(seenList \o [n \in DOMAIN fnd |-> fnd[n].commentId]), MAX_COMMENTS_SEEN)
\* findings.sort by createdTime, descending (stable)
RECURSIVE SortFindings(_)
SortFindings(fnd) ==
  IF fnd = <<>> THEN <<>>
  ELSE LET front == SortFindings(SubSeq(fnd, 1, Len(fnd) - 1))
           e == fnd[Len(fnd)]
           stay == {n \in 0..Len(front) :
                      \A j \in 1..n : front[j].createdTime >= e.createdTime}
           at == CHOOSE n \in stay : \A j \in stay : j <= n
       IN SubSeq(front, 1, at) \o <<e>> \o SubSeq(front, at + 1, Len(front))

\* findings.map(f => f.commentId)
FoundIds(fnd) == {fnd[n].commentId : n \in DOMAIN fnd}

NoLists == [k \in SurfaceKeys |-> [results |-> <<>>, cursor |-> NoCursor, done |-> TRUE]]
FreshLists == [k \in SurfaceKeys |-> [results |-> <<>>, cursor |-> NoCursor, done |-> FALSE]]
NoReference == [id |-> FALSE, created |-> FALSE]

watchLocals == <<wstate, sinceIso, lists, work, findings, reference, ids, wnext,
                 surf, results, cursor, pidx, out, ccursor>>
sweepOnly == <<file, state, lastRunIso, report, groups, nextState, fileAtStart,
               qlog, qdirty, qsnap, qret, qdone, committedAt, quiet, newBefore, cl>>

\* The locals of a watcher's main(), gone when the process exits.
WClear ==
  /\ wstate' = WatchFallback
  /\ sinceIso' = Null
  /\ lists' = NoLists
  /\ work' = <<>>
  /\ findings' = <<>>
  /\ reference' = NoReference
  /\ ids' = {}
  /\ wnext' = WatchFallback
  /\ surf' = 1
  /\ results' = <<>>
  /\ cursor' = NoCursor
  /\ pidx' = 0
  /\ out' = <<>>
  /\ ccursor' = NoCursor
WThrow(kind) ==
  /\ pc' = "failed"
  /\ failure' = kind
  /\ WClear

\* ---- the comment watcher (notion_comment_watcher.mjs)
\* assertEnv, readJsonIfExists, the missing-env check, and Promise.all of the
\* three database listings.
W1Start ==
  /\ script = "watcher"
  /\ pc \in {"idle", "done", "failed"}
  /\ runs < MaxRuns
  /\ runs' = runs + 1
  /\ wfileAtStart' = wfile
  /\ calls' = 0
  /\ gwFailed' = FALSE
  /\ gwMalformed' = FALSE
  /\ wrote' = FALSE
  /\ stdout' = <<>>
  /\ IF ~env.apiKey
     THEN WThrow("env") /\ scanned' = FALSE
     ELSE IF MissingEnv(env) # {}
     THEN WThrow("config") /\ scanned' = FALSE
     ELSE /\ pc' = "w1list"
          /\ failure' = "none"
          /\ scanned' = TRUE
          /\ wstate' = readJsonIfExists(wfile, WatchFallback)
          /\ sinceIso' = isoMinusHours(LOOKBACK_HOURS_DEFAULT)
          /\ lists' = FreshLists
          /\ work' = <<>>
          /\ findings' = <<>>
          /\ reference' = NoReference
          /\ ids' = {}
          /\ wnext' = WatchFallback
          /\ surf' = 1
          /\ results' = <<>>
          /\ cursor' = NoCursor
          /\ pidx' = 0
          /\ out' = <<>>
          /\ ccursor' = NoCursor
  /\ UNCHANGED <<remoteVars, confVars, sweepOnly, wfile, foundBefore, tree>>

\* The state the watcher writes: now, and the seen list with the findings.
W1NextState(seenList, fnd) ==
  [lastRunIso |-> now, seenCommentIds |-> NextSeen(seenList, fnd),
   referencePageId |-> FALSE, discovered |-> {}]

\* The findings loop reaches work item n: a block's title is retrieved first,
\* a page's comments are listed at once; after the last item the state is
\* derived and writeJson is called.
W1Advance(wk, n, fnd) ==
  /\ work' = wk
  /\ findings' = fnd
  /\ out' = <<>>
  /\ ccursor' = NoCursor
  /\ IF n > Len(wk)
     THEN /\ pidx' = 0
          /\ wnext' = W1NextState(wstate.seenCommentIds, fnd)
          /\ pc' = "w1write"
     ELSE /\ pidx' = n
          /\ UNCHANGED wnext
          /\ pc' = IF wk[n].page.object = "page" THEN "w1comments" ELSE "w1title"

\* A page of one of the three concurrent database listings answers.
W1ListPage ==
  /\ script = "watcher"
  /\ pc = "w1list"
  /\ \E k \in SurfaceKeys :
       /\ ~lists[k].done
       /\ \E res \in QueryResponses(k, sinceIso,
                                    WatchPageSize(Len(lists[k].results)), lists[k].cursor) :
            /\ calls' = calls + 1
            /\ gwFailed' = (gwFailed \/ ~res.ok)
            /\ gwMalformed' = (gwMalformed \/ res.malformed)
            /\ IF NotionFetchThrows(res)
               THEN WThrow("gateway")
               ELSE LET all == lists[k].results \o res.results
                        more == WatchContinues(res, Len(all))
                        l2 == [lists EXCEPT ![k] =
                                 [results |-> all,
                                  cursor |-> IF more THEN NextCursor(res) ELSE NoCursor,
                                  done |-> ~more]]
                    IN /\ lists' = l2
                       /\ pc' = IF \A j \in SurfaceKeys : l2[j].done
                                THEN "w1root" ELSE "w1list"
                       /\ UNCHANGED <<failure, wstate, sinceIso, work, findings, reference,
                                      ids, wnext, surf, results, cursor, pidx, out, ccursor>>
  /\ UNCHANGED <<remoteVars, confVars, sweepOnly, wfile, foundBefore, wfileAtStart, tree, runs,
                 stdout, wrote, scanned>>

\* A page of the root page's children answers.
W1RootPage ==
  /\ script = "watcher"
  /\ pc = "w1root"
  /\ \E res \in RootResponses(COMMENT_PAGE_SIZE, cursor) :
       /\ calls' = calls + 1
       /\ gwFailed' = (gwFailed \/ ~res.ok)
       /\ gwMalformed' = (gwMalformed \/ res.malformed)
       /\ IF NotionFetchThrows(res)
          THEN WThrow("gateway")
          ELSE LET pages == results \o SelectSeq(res.results,
                                                 LAMBDA b : RootKept(b, sinceIso))
               IN IF CommentsContinue(res)
                  THEN /\ results' = pages
                       /\ cursor' = NextCursor(res)
                       /\ UNCHANGED <<pc, failure, wstate, sinceIso, lists, work, findings,
                                      reference, ids, wnext, surf, pidx, out, ccursor>>
                  ELSE LET wk == [n \in DOMAIN lists["Tasks"].results |->
                                    [surface |-> "Tasks", page |-> lists["Tasks"].results[n]]]
                                 \o [n \in DOMAIN lists["EventsQueue"].results |->
                                    [surface |-> "EventsQueue",
                                     page |-> lists["EventsQueue"].results[n]]]
                                 \o [n \in DOMAIN lists["ImportsQueue"].results |->
                                    [surface |-> "ImportsQueue",
                                     page |-> lists["ImportsQueue"].results[n]]]
                                 \o [n \in DOMAIN pages |->
                                    [surface |-> "Root", page |-> pages[n]]]
                       IN /\ results' = <<>>
                          /\ cursor' = NoCursor
                          /\ lists' = NoLists
                          /\ W1Advance(wk, 1, <<>>)
                          /\ UNCHANGED <<failure, wstate, sinceIso, reference, ids, surf>>
  /\ UNCHANGED <<remoteVars, confVars, sweepOnly, wfile, foundBefore, wfileAtStart, tree, runs,
                 stdout, wrote, scanned>>

\* retrievePageOrBlockTitle of a child block answers; an error is caught.
W1Title ==
  /\ script = "watcher"
  /\ pc = "w1title"
  /\ \E okay \in BOOLEAN :
       /\ calls' = calls + 1
       /\ gwFailed' = (gwFailed \/ ~okay)
       /\ UNCHANGED gwMalformed
  /\ pc' = "w1comments"
  /\ UNCHANGED <<remoteVars, confVars, sweepOnly, wfile, foundBefore, wfileAtStart, tree, runs,
                 stdout, wrote, scanned, failure, watchLocals>>

\* A page of the comment listing of work[pidx] answers.
W1Comments ==
  /\ script = "watcher"
  /\ pc = "w1comments"
  /\ \E res \in CommentResponses(work[pidx].page.id, COMMENT_PAGE_SIZE, ccursor) :
       /\ calls' = calls + 1
       /\ gwFailed' = (gwFailed \/ ~res.ok)
       /\ gwMalformed' = (gwMalformed \/ res.malformed)
       /\ IF NotionFetchThrows(res)
          THEN WThrow("gateway")
          ELSE LET all == out \o res.results
               IN IF CommentsContinue(res)
                  THEN /\ out' = all
                       /\ ccursor' = NextCursor(res)
                       /\ UNCHANGED <<pc, failure, wstate, sinceIso, lists, work, findings,
                                      reference, ids, wnext, surf, results, cursor, pidx>>
                  ELSE /\ W1Advance(work, pidx + 1,
                            findings \o FindingsOf(work[pidx].surface, work[pidx].page, all,
                                         {wstate.seenCommentIds[n] :
                                            n \in DOMAIN wstate.seenCommentIds}, sinceIso))
                       /\ UNCHANGED <<failure, wstate, sinceIso, lists, reference, ids,
                                      surf, results, cursor>>
  /\ UNCHANGED <<remoteVars, confVars, sweepOnly, wfile, foundBefore, wfileAtStart, tree, runs,
                 stdout, wrote, scanned>>

\* writeJson completes and the report is printed, or the write fails.
W1Write ==
  /\ script = "watcher"
  /\ pc = "w1write"
  /\ \E outcome \in WriteOutcomes :
       IF outcome = "written"
       THEN /\ wfile' = StringifyWatch(wnext)
            /\ wrote' = TRUE
            /\ foundBefore' = foundBefore \cup FoundIds(findings)
            /\ stdout' = Append(stdout, [sinceIso |-> sinceIso,
                                         lastRunIso |-> wnext.lastRunIso,
                                         findings |-> findings])
            /\ pc' = "done"
            /\ WClear
            /\ UNCHANGED failure
       ELSE /\ WThrow("write")
            /\ wfile' = IF outcome = "torn" THEN WCorruptFile ELSE wfile
            /\ UNCHANGED <<wrote, stdout, foundBefore>>
  /\ UNCHANGED <<remoteVars, confVars, sweepOnly, wfileAtStart, tree, runs,
                 calls, gwFailed, gwMalformed, scanned>>

\* ---- the comment watcher v2 (unnamed/part_001)
\* runScan starts surface n; after the last surface the findings are sorted,
\* the next state is derived and writeJson is called.
W2Surface(n, fnd) ==
  /\ results' = <<>>
  /\ cursor' = NoCursor
  /\ pidx' = 0
  /\ out' = <<>>
  /\ ccursor' = NoCursor
  /\ IF n > Len(Surfaces)
     THEN /\ findings' = SortFindings(fnd)
          /\ wnext' = [wnext EXCEPT !.seenCommentIds =
                             NextSeen(wstate.seenCommentIds, SortFindings(fnd))]
          /\ pc' = "w2write"
          /\ UNCHANGED surf
     ELSE /\ findings' = fnd
          /\ surf' = n
          /\ pc' = "w2list"
          /\ UNCHANGED wnext

\* const missingIds = Object.entries(ids).filter(([, v]) => !v)
MissingIds(found) == SurfaceKeys \ found

\* The ids are resolved: nextStateBase is built; with an id missing it is
\* written at once, otherwise runScan starts.
W2Resolved(ref, found) ==
  LET base == [wstate EXCEPT !.lastRunIso = now,
                 !.referencePageId = (ref.id \/ wstate.referencePageId),
                 !.discovered = found]
  IN /\ reference' = ref
     /\ ids' = found
     /\ IF MissingIds(found) # {}
        THEN /\ wnext' = base
             /\ pc' = "w2writeMissing"
             /\ failure' = "missing"
             /\ UNCHANGED <<scanned, findings, surf, results, cursor, pidx, out, ccursor>>
        ELSE /\ scanned' = TRUE
             /\ UNCHANGED failure
             /\ \E w \in {base} :
                  /\ wnext' = w
                  /\ results' = <<>>
                  /\ cursor' = NoCursor
                  /\ pidx' = 0
                  /\ out' = <<>>
                  /\ ccursor' = NoCursor
                  /\ findings' = <<>>
                  /\ surf' = 1
                  /\ pc' = "w2list"

\* assertEnv, readJsonIfExists; the Reference page is looked for under the
\* root, or, when the state names it, read.
W2Start ==
  /\ script = "watcher2"
  /\ pc \in {"idle", "done", "failed"}
  /\ runs < MaxRuns
  /\ runs' = runs + 1
  /\ wfileAtStart' = wfile
  /\ calls' = 0
  /\ gwFailed' = FALSE
  /\ gwMalformed' = FALSE
  /\ wrote' = FALSE
  /\ stdout' = <<>>
  /\ scanned' = FALSE
  /\ IF ~env.apiKey
     THEN WThrow("env")
     ELSE LET st == readJsonIfExists(wfile, WatchFallback)
          IN /\ pc' = IF st.referencePageId THEN "w2parse" ELSE "w2find"
             /\ failure' = "none"
             /\ wstate' = st
             /\ sinceIso' = isoMinusHours(LOOKBACK_HOURS_DEFAULT)
             /\ reference' = [id |-> st.referencePageId, created |-> FALSE]
             /\ lists' = NoLists
             /\ work' = <<>>
             /\ findings' = <<>>
             /\ ids' = {}
             /\ wnext' = WatchFallback
             /\ surf' = 1
             /\ results' = <<>>
             /\ cursor' = NoCursor
             /\ pidx' = 0
             /\ out' = <<>>
             /\ ccursor' = NoCursor
  /\ UNCHANGED <<remoteVars, confVars, sweepOnly, wfile, foundBefore, tree>>

\* findReferencePageIdUnderRoot answers (a traversal of the root's blocks).
W2Find ==
  /\ script = "watcher2"
  /\ pc = "w2find"
  /\ \E okay \in BOOLEAN :
       /\ calls' = calls + 1
       /\ gwFailed' = (gwFailed \/ ~okay)
       /\ UNCHANGED gwMalformed
       /\ IF ~okay
          THEN WThrow("gateway")
          ELSE /\ reference' = [id |-> tree.reference, created |-> FALSE]
               /\ pc' = IF tree.reference THEN "w2parse" ELSE "w2create"
               /\ UNCHANGED <<failure, wstate, sinceIso, lists, work, findings, ids, wnext,
                              surf, results, cursor, pidx, out, ccursor>>
  /\ UNCHANGED <<remoteVars, confVars, sweepOnly, wfile, foundBefore, wfileAtStart, tree, runs,
                 stdout, wrote, scanned>>

\* createReferencePageUnderRoot answers: the page now exists, with the
\* template's placeholders for ids; or the request fails and the error is
\* caught, and the databases are looked for by their titles.
W2Create ==
  /\ script = "watcher2"
  /\ pc = "w2create"
  /\ calls' = calls + 1
  /\ \E okay \in BOOLEAN :
       /\ gwFailed' = (gwFailed \/ ~okay)
       /\ UNCHANGED gwMalformed
       /\ IF okay
          THEN /\ tree' = [tree EXCEPT !.reference = TRUE, !.refIds = {}]
               /\ reference' = [id |-> TRUE, created |-> TRUE]
               /\ pc' = "w2parse"
          ELSE /\ reference' = [id |-> FALSE, created |-> FALSE]
               /\ pc' = "w2fallback"
               /\ UNCHANGED tree
  /\ UNCHANGED <<remoteVars, confVars, sweepOnly, wfile, foundBefore, wfileAtStart, runs,
                 stdout, wrote, scanned, failure, wstate, sinceIso, lists, work, findings,
                 ids, wnext, surf, results, cursor, pidx, out, ccursor>>

\* parseReferencePageForDbIds answers.
W2Parse ==
  /\ script = "watcher2"
  /\ pc = "w2parse"
  /\ \E okay \in BOOLEAN :
       /\ calls' = calls + 1
       /\ gwFailed' = (gwFailed \/ ~okay)
       /\ UNCHANGED gwMalformed
       /\ IF ~okay
          THEN WThrow("gateway") /\ UNCHANGED scanned
          ELSE IF MissingIds(tree.refIds) # {}
          THEN /\ ids' = tree.refIds
               /\ pc' = "w2fallback"
               /\ UNCHANGED <<failure, wstate, sinceIso, lists, work, findings, reference,
                              wnext, surf, results, cursor, pidx, out, ccursor, scanned>>
          ELSE /\ W2Resolved(reference, tree.refIds)
               /\ UNCHANGED <<wstate, sinceIso, lists, work>>
  /\ UNCHANGED <<remoteVars, confVars, sweepOnly, wfile, foundBefore, wfileAtStart, tree, runs,
                 stdout, wrote>>

\* The fallback traversal answers: databases found by their titles.
W2Fallback ==
  /\ script = "watcher2"
  /\ pc = "w2fallback"
  /\ \E okay \in BOOLEAN :
       /\ calls' = calls + 1
       /\ gwFailed' = (gwFailed \/ ~okay)
       /\ UNCHANGED gwMalformed
       /\ IF ~okay
          THEN WThrow("gateway") /\ UNCHANGED scanned
          ELSE /\ W2Resolved(reference, ids \cup tree.namedDbs)
               /\ UNCHANGED <<wstate, sinceIso, lists, work>>
  /\ UNCHANGED <<remoteVars, confVars, sweepOnly, wfile, foundBefore, wfileAtStart, tree, runs,
                 stdout, wrote>>

\* "Persist discovery even if missing": writeJson(STATE_PATH, nextStateBase)
\* completes, and the root page's meta is asked for; or the write fails.
W2WriteMissing ==
  /\ script = "watcher2"
  /\ pc = "w2writeMissing"
  /\ \E outcome \in WriteOutcomes :
       IF outcome = "written"
       THEN /\ wfile' = StringifyWatch(wnext)
            /\ wrote' = TRUE
            /\ pc' = "w2meta"
            /\ UNCHANGED <<failure, watchLocals>>
       ELSE /\ WThrow("write")
            /\ wfile' = IF outcome = "torn" THEN WCorruptFile ELSE wfile
            /\ UNCHANGED wrote
  /\ UNCHANGED <<remoteVars, confVars, sweepOnly, foundBefore, wfileAtStart, tree, runs,
                 stdout, calls, gwFailed, gwMalformed, scanned>>

\* retrievePageMeta(ROOT_PAGE_ID) answers: the instructions are printed and
\* main() returns.
W2Meta ==
  /\ script = "watcher2"
  /\ pc = "w2meta"
  /\ calls' = calls + 1
  /\ \E okay \in BOOLEAN :
       /\ gwFailed' = (gwFailed \/ ~okay)
       /\ UNCHANGED gwMalformed
       /\ IF ~okay
          THEN WThrow("gateway") /\ UNCHANGED stdout
          ELSE /\ stdout' = Append(stdout, [error |-> "Missing required database ids",
                                            missing |-> MissingIds(ids)])
               /\ pc' = "done"
               /\ WClear
               /\ UNCHANGED failure
  /\ UNCHANGED <<remoteVars, confVars, sweepOnly, wfile, foundBefore, wfileAtStart, tree, runs,
                 wrote, scanned>>

\* runScan reaches page n of the surface's pages.
W2Page(n, fnd) ==
  IF n > Len(results)
  THEN W2Surface(surf + 1, fnd)
  ELSE /\ pidx' = n
       /\ findings' = fnd
       /\ out' = <<>>
       /\ ccursor' = NoCursor
       /\ pc' = "w2comments"
       /\ UNCHANGED <<results, cursor, surf, wnext>>

\* A page of listRecentPagesFromDatabase answers.
W2List ==
  /\ script = "watcher2"
  /\ pc = "w2list"
  /\ \E res \in QueryResponses(Surfaces[surf], sinceIso,
                               WatchPageSize(Len(results)), cursor) :
       /\ calls' = calls + 1
       /\ gwFailed' = (gwFailed \/ ~res.ok)
       /\ gwMalformed' = (gwMalformed \/ res.malformed)
       /\ IF NotionFetchThrows(res)
          THEN WThrow("gateway")
          ELSE LET all == results \o res.results
               IN IF WatchContinues(res, Len(all))
                  THEN /\ results' = all
                       /\ cursor' = NextCursor(res)
                       /\ UNCHANGED <<pc, failure, wstate, sinceIso, lists, work, findings,
                                      reference, ids, wnext, surf, pidx, out, ccursor>>
                  ELSE /\ IF all = <<>>
                          THEN W2Surface(surf + 1, findings)
                          ELSE /\ results' = all
                               /\ cursor' = NoCursor
                               /\ pidx' = 1
                               /\ out' = <<>>
                               /\ ccursor' = NoCursor
                               /\ pc' = "w2comments"
                               /\ UNCHANGED <<findings, surf, wnext>>
                       /\ UNCHANGED <<failure, wstate, sinceIso, lists, work, reference, ids>>
  /\ UNCHANGED <<remoteVars, confVars, sweepOnly, wfile, foundBefore, wfileAtStart, tree, runs,
                 stdout, wrote, scanned>>

\* A page of the comment listing of results[pidx] answers.
W2Comments ==
  /\ script = "watcher2"
  /\ pc = "w2comments"
  /\ \E res \in CommentResponses(results[pidx].id, COMMENT_PAGE_SIZE, ccursor) :
       /\ calls' = calls + 1
       /\ gwFailed' = (gwFailed \/ ~res.ok)
       /\ gwMalformed' = (gwMalformed \/ res.malformed)
       /\ IF NotionFetchThrows(res)
          THEN WThrow("gateway")
          ELSE LET all == out \o res.results
               IN IF CommentsContinue(res)
                  THEN /\ out' = all
                       /\ ccursor' = NextCursor(res)
                       /\ UNCHANGED <<pc, failure, wstate, sinceIso, lists, work, findings,
                                      reference, ids, wnext, surf, results, cursor, pidx>>
                  ELSE /\ W2Page(pidx + 1,
                            findings \o FindingsOf(Surfaces[surf], results[pidx], all,
                                         {wstate.seenCommentIds[n] :
                                            n \in DOMAIN wstate.seenCommentIds}, sinceIso))
                       /\ UNCHANGED <<failure, wstate, sinceIso, lists, work, reference, ids>>
  /\ UNCHANGED <<remoteVars, confVars, sweepOnly, wfile, foundBefore, wfileAtStart, tree, runs,
                 stdout, wrote, scanned>>

\* writeJson completes and the report is printed, or the write fails.
W2Write ==
  /\ script = "watcher2"
  /\ pc = "w2write"
  /\ \E outcome \in WriteOutcomes :
       IF outcome = "written"
       THEN /\ wfile' = StringifyWatch(wnext)
            /\ wrote' = TRUE
            /\ foundBefore' = foundBefore \cup FoundIds(findings)
            /\ stdout' = Append(stdout, [sinceIso |-> sinceIso,
                                         lastRunIso |-> wnext.lastRunIso,
                                         findings |-> findings])
            /\ pc' = "done"
            /\ WClear
            /\ UNCHANGED failure
       ELSE /\ WThrow("write")
            /\ wfile' = IF outcome = "torn" THEN WCorruptFile ELSE wfile
            /\ UNCHANGED <<wrote, stdout, foundBefore>>
  /\ UNCHANGED <<remoteVars, confVars, sweepOnly, wfileAtStart, tree, runs,
                 calls, gwFailed, gwMalformed, scanned>>

\* ------------------------------------------------------------ the system
NoClassify == [page |-> [created_time |-> Null, last_edited_time |-> Null],
               commentsSince |-> <<>>, wasSeen |-> FALSE, group |-> "none"]

\* The checkpoint files a first run may find (a later run of a watcher finds
\* the file the run before it wrote).
FreshFile ==
  [kind |-> "json", lastRunIso |-> Null, hasSeenIds |-> TRUE, seenIds |-> EmptySeen, extra |-> Null,
   otherSeen |-> <<>>]
BareFile ==
  [kind |-> "json", lastRunIso |-> Null, hasSeenIds |-> FALSE, seenIds |-> EmptySeen, extra |-> Null,
   otherSeen |-> <<>>]
\* A checkpoint file with a field and a seenIds key the sweeper does not know.
ForeignFile ==
  [FreshFile EXCEPT !.extra = 1, !.otherSeen = <<<<1, 0>>>>]
InitialFiles == {AbsentFile, CorruptFile, BareFile, FreshFile, ForeignFile}
InitialWatchFiles == {WAbsentFile, WCorruptFile}
\* The environments: everything set, or one variable missing.
FullEnv == [apiKey |-> TRUE, dbIds |-> SurfaceKeys, root |-> TRUE]
Environments ==
  {FullEnv, [FullEnv EXCEPT !.apiKey = FALSE]}
    \cup {[FullEnv EXCEPT !.dbIds = SurfaceKeys \ {k}] : k \in SurfaceKeys}
\* The workspaces under the root page: a Reference page naming all databases,
\* one naming some with the others found by their titles, none at all, and
\* one that leaves a database out.
FullTree == [reference |-> TRUE, refIds |-> SurfaceKeys, namedDbs |-> {}]
Trees ==
  {FullTree,
   [reference |-> TRUE, refIds |-> {"Tasks"}, namedDbs |-> {"EventsQueue", "ImportsQueue"}],
   [reference |-> FALSE, refIds |-> {}, namedDbs |-> {}],
   [reference |-> TRUE, refIds |-> {"Tasks", "EventsQueue"}, namedDbs |-> {}]}

\* No run has started.
InitLocals ==
  /\ now = 0
  /\ ops = 0
  /\ pc = "idle"
  /\ runs = 0
  /\ state = NoState
  /\ lastRunIso = Null
  /\ report = NoReport
  /\ surf = 1
  /\ results = <<>>
  /\ cursor = NoCursor
  /\ pidx = 0
  /\ out = <<>>
  /\ ccursor = NoCursor
  /\ groups = EmptyGroups
  /\ nextState = NoState
  /\ stdout = <<>>
  /\ calls = 0
  /\ gwFailed = FALSE
  /\ gwMalformed = FALSE
  /\ wrote = FALSE
  /\ failure = "none"
  /\ qlog = <<>>
  /\ qdirty = FALSE
  /\ qsnap = {}
  /\ qret = <<>>
  /\ qdone = FALSE
  /\ committedAt = Null
  /\ newBefore = {}
  /\ foundBefore = {}
  /\ quiet = FALSE
  /\ wstate = WatchFallback
  /\ sinceIso = Null
  /\ lists = NoLists
  /\ work = <<>>
  /\ findings = <<>>
  /\ reference = NoReference
  /\ ids = {}
  /\ wnext = WatchFallback
  /\ scanned = FALSE

\* No run has started, on an empty workspace.
InitRun ==
  /\ InitLocals
  /\ remote = [i \in AllIds |-> NoItem]
  /\ comments = <<>>

InitSweeper ==
  /\ script = "sweeper"
  /\ gateway = "sound"
  /\ env \in Environments
  /\ file \in InitialFiles
  /\ wfile = WAbsentFile
  /\ tree = FullTree

InitWatcher ==
  /\ script = "watcher"
  /\ gateway = "sound"
  /\ env \in Environments \cup {[FullEnv EXCEPT !.root = FALSE]}
  /\ file = AbsentFile
  /\ wfile \in InitialWatchFiles
  /\ tree = FullTree

InitWatcher2 ==
  /\ script = "watcher2"
  /\ gateway = "sound"
  /\ env \in {FullEnv, [FullEnv EXCEPT !.apiKey = FALSE]}
  /\ file = AbsentFile
  /\ wfile \in InitialWatchFiles
  /\ tree \in Trees

Init ==
  /\ InitRun
  /\ InitSweeper
  /\ fileAtStart = file
  /\ wfileAtStart = wfile
  /\ cl = NoClassify

InitWatch ==
  /\ InitRun
  /\ (InitWatcher \/ InitWatcher2)
  /\ fileAtStart = file
  /\ wfileAtStart = wfile
  /\ cl = NoClassify

\* The sweeper, configured, on a good checkpoint file, behind a gateway that
\* may answer with malformed payloads.
InitGateway ==
  /\ InitRun
  /\ script = "sweeper"
  /\ gateway = "faulty"
  /\ env = FullEnv
  /\ file = FreshFile
  /\ wfile = WAbsentFile
  /\ tree = FullTree
  /\ fileAtStart = file
  /\ wfileAtStart = wfile
  /\ cl = NoClassify

InitAll ==
  /\ InitRun
  /\ (InitSweeper \/ InitWatcher \/ InitWatcher2)
  /\ fileAtStart = file
  /\ wfileAtStart = wfile
  /\ cl = NoClassify

Remote == \E i \in AllIds : CreateItem(i) \/ EditItem(i) \/ AddComment(i)

Next ==
  \/ Tick
  \/ Remote
  \/ StartRun
  \/ GetDatabase
  \/ QueryPage
  \/ CommentsPage
  \/ WriteFile

NextWatch ==
  \/ Tick
  \/ Remote
  \/ W1Start
  \/ W1ListPage
  \/ W1RootPage
  \/ W1Title
  \/ W1Comments
  \/ W1Write
  \/ W2Start
  \/ W2Find
  \/ W2Create
  \/ W2Parse
  \/ W2Fallback
  \/ W2WriteMissing
  \/ W2Meta
  \/ W2List
  \/ W2Comments
  \/ W2Write

NextAll == Next \/ NextWatch

\* The sweeper alone, the two comment watchers, and all three scripts.
Spec == Init /\ [][Next]_vars
SpecWatch == InitWatch /\ [][NextWatch]_vars
SpecAll == InitAll /\ [][NextAll]_vars
SpecGateway == InitGateway /\ [][Next]_vars

\* The sweeper, configured, on a good checkpoint file, over a workspace that
\* holds Tasks items (one of them commented) and does not change, behind a
\* gateway that may answer with looping pages.  Every request is answered in
\* the end, so every step of a run that is waiting for an answer is taken.
StaticItem == [exists |-> TRUE, created |-> 0, edited |-> 0, bare |-> FALSE]
InitPaging ==
  /\ InitLocals
  /\ \E n \in 1..NumTaskItems :
       remote = [i \in AllIds |-> IF i <= n THEN StaticItem ELSE NoItem]
  /\ comments = <<[id |-> 1, block |-> 1, created_time |-> 0,
                   fromAdam |-> FALSE, mentionsAdam |-> FALSE]>>
  /\ script = "sweeper"
  /\ gateway = "looping"
  /\ env = FullEnv
  /\ file = FreshFile
  /\ wfile = WAbsentFile
  /\ tree = FullTree
  /\ fileAtStart = file
  /\ wfileAtStart = wfile
  /\ cl = NoClassify
NextPaging ==
  \/ StartRun
  \/ GetDatabase
  \/ QueryPage
  \/ CommentsPage
  \/ WriteFile
SpecPaging ==
  /\ InitPaging
  /\ [][NextPaging]_vars
  /\ WF_vars(GetDatabase)
  /\ WF_vars(QueryPage)
  /\ WF_vars(CommentsPage)
  /\ WF_vars(WriteFile)

\* The two comment watchers, configured, over a workspace that does not
\* change: a Tasks page and a child block of the root page, and on the Tasks
\* page one comment by Adam more than the seen list keeps ids.
BusyComments ==
  [n \in 1..(MAX_COMMENTS_SEEN + 1) |->
     [id |-> n, block |-> 1, created_time |-> 0, fromAdam |-> TRUE,
      mentionsAdam |-> FALSE]]
InitBusy ==
  /\ InitLocals
  /\ remote = [i \in AllIds |-> IF i = 1 \/ i \in RootIds THEN StaticItem ELSE NoItem]
  /\ comments = BusyComments
  /\ script \in {"watcher", "watcher2"}
  /\ gateway = "sound"
  /\ env = FullEnv
  /\ file = AbsentFile
  /\ wfile \in InitialWatchFiles
  /\ tree \in Trees
  /\ fileAtStart = file
  /\ wfileAtStart = wfile
  /\ cl = NoClassify
NextBusy ==
  \/ Tick
  \/ W1Start
  \/ W1ListPage
  \/ W1RootPage
  \/ W1Title
  \/ W1Comments
  \/ W1Write
  \/ W2Start
  \/ W2Find
  \/ W2Create
  \/ W2Parse
  \/ W2Fallback
  \/ W2WriteMissing
  \/ W2Meta
  \/ W2List
  \/ W2Comments
  \/ W2Write
SpecBusy == InitBusy /\ [][NextBusy]_vars

\* ------------------------------------------- classifyItem on drawn inputs
SomeComment(n, t) ==
  [id |-> n, block |-> 1, created_time |-> t, fromAdam |-> FALSE, mentionsAdam |-> FALSE]
Stamps == {Null} \cup (0..MaxTime)
CommentLists ==
  {<<>>} \cup {<<SomeComment(1, t)>> : t \in 0..MaxTime}
    \cup {<<SomeComment(1, t), SomeComment(2, u)>> : t, u \in 0..MaxTime}

InitClassify ==
  /\ InitRun
  /\ script = "classify"
  /\ gateway = "sound"
  /\ env = FullEnv
  /\ file = FreshFile
  /\ fileAtStart = file
  /\ wfile = WAbsentFile
  /\ wfileAtStart = wfile
  /\ tree = FullTree
  /\ cl \in [page : [created_time : Stamps, last_edited_time : Stamps],
             commentsSince : CommentLists, wasSeen : BOOLEAN, group : {"none"}]

Classify ==
  /\ script = "classify"
  /\ cl.group = "none"
  /\ cl' = [cl EXCEPT !.group = classifyItem(cl.page, cl.commentsSince, cl.wasSeen)]
  /\ UNCHANGED <<remoteVars, confVars, file, runVars, histVars, watchVars, scanned>>

NextClassify == Classify

SpecClassify == InitClassify /\ [][NextClassify]_vars

\* ------------------------------------------------------------ properties
\* The report the finished run printed.
Printed == stdout[1]
SurfaceOf(rep, k) ==
  CHOOSE x \in {rep.bySurface[n] : n \in DOMAIN rep.bySurface} : x.key = k
ReportItems(rep, k) == ItemsInOrder(SurfaceOf(rep, k).groups)
\* The seen map of surface k before the retention cap is applied.
Merged(k) ==
  MergeSeen(ParseJson(fileAtStart).seenIds[k], ReportItems(Printed, k), Printed.ranAtIso)
Entries(m) == {m[n] : n \in DOMAIN m}

\* C1: a run in which a gateway call failed writes nothing, so the file is
\* the file the run found; and a run that wrote had scanned all three surfaces.
C1_CommitOnlyAfterFullScan ==
  /\ gwFailed => (~wrote /\ file = fileAtStart)
  /\ wrote => (Len(stdout) = 1 /\ Len(Printed.bySurface) = Len(Surfaces))
\* The gateway fails on surface 2 of 3, after surface 1 was scanned with an item.
C1_Witness ==
  /\ pc = "failed" /\ failure = "gateway" /\ gwFailed
  /\ surf = 2 /\ calls >= 4
  /\ file = fileAtStart /\ file.kind = "json"
  /\ \E i \in IdsOf["Tasks"] : remote[i].exists

\* C2: an item with at least one comment since the watermark is classified C,
\* whatever its timestamps (equal, different, missing) and its seen flag.
C2_CommentedFirst ==
  (cl.group # "none" /\ Len(cl.commentsSince) > 0) => cl.group = "C"
\* A seen item with a comment and different timestamps was classified.
C2_Witness ==
  /\ cl.group = "C" /\ cl.wasSeen /\ Len(cl.commentsSince) > 0
  /\ cl.page.created_time # Null /\ cl.page.last_edited_time # Null
  /\ cl.page.created_time < cl.page.last_edited_time

NoABC(rep) ==
  \A n \in DOMAIN rep.bySurface :
     /\ rep.bySurface[n].groups["A"] = <<>>
     /\ rep.bySurface[n].groups["B"] = <<>>
     /\ rep.bySurface[n].groups["C"] = <<>>
\* Every remote change carries a timestamp earlier than t.
AllStampsBefore(t) ==
  /\ \A i \in AllIds : remote[i].exists => remote[i].edited < t
  /\ \A n \in DOMAIN comments : comments[n].created_time < t

\* C4 as stated: a run that loads the checkpoint of an earlier successful run,
\* with no remote change since that run completed, reports nothing in A, B, C.
C4_Original ==
  (pc = "write" /\ committedAt # Null /\ quiet) => NoABC(Printed)
\* C4 amended: ... with no remote change at or after the instant the earlier
\* run captured its ranAtIso (every item edit and comment is stamped earlier).
C4_IdempotentRescan ==
  (pc = "write" /\ committedAt # Null /\ AllStampsBefore(committedAt)) => NoABC(Printed)
\* A second run over a workspace whose items the first run recorded.
C4_Witness ==
  /\ pc = "write" /\ committedAt # Null /\ AllStampsBefore(committedAt)
  /\ \E i \in IdsOf["Tasks"] : remote[i].exists /\ i \in Keys(state.seenIds["Tasks"])
  /\ comments # <<>>

\* C5: after a commit every surface's seen map has at most SEEN_CAP entries,
\* and when the merged map was larger, the entries kept are SEEN_CAP entries of
\* it, each stamped no earlier than every dropped entry.
C5_RetentionCap ==
  (pc = "done") =>
     \A k \in SurfaceKeys :
        LET kept == Entries(file.seenIds[k])
            merged == Entries(Merged(k))
        IN /\ Len(file.seenIds[k]) <= SEEN_CAP
           /\ kept \subseteq merged
           /\ Len(Merged(k)) > SEEN_CAP =>
                /\ Len(file.seenIds[k]) = SEEN_CAP
                /\ \A e \in kept : \A d \in merged \ kept : e[2] >= d[2]
           /\ Len(Merged(k)) <= SEEN_CAP => kept = merged
\* A commit whose merged Tasks map exceeded the cap, with distinct timestamps.
C5_Witness ==
  /\ pc = "done"
  /\ Len(Merged("Tasks")) > SEEN_CAP
  /\ \E e, d \in Entries(Merged("Tasks")) : e[2] # d[2]

\* C6: when the surface did not change during the query and no more than
\* MAX_PAGES items match the filter, the query returns each matching item
\* exactly once, and only its last response has has_more = false.
C6_PaginationComplete ==
  (qdone /\ ~qdirty /\ Cardinality(qsnap) <= MAX_PAGES) =>
     /\ {qret[n].id : n \in DOMAIN qret} = qsnap
     /\ Len(qret) = Cardinality(qsnap)
     /\ qlog # <<>>
     /\ \A n \in DOMAIN qlog : qlog[n] = (n < Len(qlog))
\* A query over two pages finished on an unchanged surface.
C6_Witness ==
  /\ qdone /\ ~qdirty /\ Cardinality(qsnap) <= MAX_PAGES
  /\ Len(qlog) >= 2 /\ Len(qret) >= 2

C8_MissingFileIsFirstRun ==
  (script = "sweeper" /\ runs > 0 /\ fileAtStart.kind = "absent" /\ env = FullEnv) =>
     ~(pc = "failed" /\ failure = "load")

\* C9 as stated: in each of the three scripts a run that finds a checkpoint
\* file whose content cannot be parsed fails before any gateway call, and the
\* file stays as it was.
C9_UnparsableCheckpointFails ==
  /\ (script = "sweeper" /\ runs > 0 /\ env.apiKey /\ fileAtStart.kind = "corrupt") =>
        (pc = "failed" /\ calls = 0 /\ file = fileAtStart)
  /\ (script \in {"watcher", "watcher2"} /\ runs > 0 /\ env.apiKey
        /\ wfileAtStart.kind = "corrupt") =>
        (pc = "failed" /\ calls = 0 /\ wfile = wfileAtStart)

\* The run found a database id missing: in the environment (sweeper, comment
\* watcher) or after discovery under the root page (comment watcher v2).
DbIdMissing ==
  \/ script \in {"sweeper", "watcher"} /\ runs > 0 /\ env.dbIds # SurfaceKeys
  \/ script = "watcher2" /\ failure = "missing"
C11_MalformedPayloadAborts ==
  gwMalformed => (pc = "failed" /\ ~wrote /\ file = fileAtStart)

\* C12 as stated: whatever happens during a save, the checkpoint file holds
\* the complete content the run found or the complete content the run wrote.
C12_SaveIsAtomic ==
  script = "sweeper" => (file = fileAtStart \/ (wrote /\ file.kind = "json"))

\* C13 as stated: in each of the three scripts the report is printed once,
\* after the scan and before the checkpoint file is written; so a run whose
\* write failed after a scan has printed its report, and so has a run that
\* scanned and wrote.
C13_ReportBeforeWrite ==
  /\ Len(stdout) <= 1
  /\ (pc = "failed" /\ failure = "write" /\ scanned) => Len(stdout) = 1
  /\ (pc = "done" /\ wrote /\ scanned) => Len(stdout) = 1

\* How many elements of list have the id i.
CountId(list, i) == Cardinality({n \in DOMAIN list : list[n].id = i})
\* C14: in every surface's report each item stands in the group it was
\* classified into, the four totals add up to queriedPages, and for the
\* surface scanned last every page the query returned stands in the groups as
\* often as the query returned it (group D included).
C14_GroupsPartitionScan ==
  \A n \in DOMAIN report.bySurface :
     LET sr == report.bySurface[n]
         items == ItemsInOrder(sr.groups)
     IN /\ \A g \in {"A", "B", "C", "D"} : \A j \in DOMAIN sr.groups[g] :
              sr.groups[g][j].group = g
        /\ sr.totals.A + sr.totals.B + sr.totals.C + sr.totals.D
              = sr.totals.queriedPages
        /\ \A g \in {"A", "B", "C", "D"} : sr.totals[g] = Len(sr.groups[g])
        /\ (n = Len(report.bySurface) /\ qdone /\ pc \in {"db", "write"}) =>
              /\ sr.totals.queriedPages = Len(qret)
              /\ \A i \in AllIds : CountId(items, i) = CountId(qret, i)
\* The Tasks report of a second run holds a new item and an unchanged one.
C14_Witness ==
  /\ Len(report.bySurface) >= 1
  /\ report.bySurface[1].groups["A"] # <<>>
  /\ report.bySurface[1].groups["D"] # <<>>
  /\ report.bySurface[1].totals.queriedPages = 2

\* C15 as stated: whatever the gateway answers, queryDataSource sends at most
\* MAX_PAGES page requests for one surface.
C15_RequestCap ==
  Len(qlog) <= MAX_PAGES

\* C16 as stated: when the merged seen map of a surface exceeds the cap, among
\* entries of the same timestamp those with the greater ids are kept: every
\* kept entry is newer than every dropped one, or as old with a greater id.
C16_TiesByIdDescending ==
  (pc = "done") =>
     \A k \in SurfaceKeys :
        LET kept == Entries(file.seenIds[k])
            merged == Entries(Merged(k))
        IN Len(Merged(k)) > SEEN_CAP =>
             \A e \in kept : \A d \in merged \ kept :
                e[2] > d[2] \/ (e[2] = d[2] /\ e[1] > d[1])

\* C17 as stated: the grouped item lists of a report do not follow the order
\* in which the gateway delivered the items: the surfaces stand in the order of
\* the surface list and every group's items in the order of their ids.
C17_ReportOrderedByStableKeys ==
  \A n \in DOMAIN report.bySurface :
     /\ report.bySurface[n].key = Surfaces[n]
     /\ \A g \in {"A", "B", "C", "D"} :
          LET list == report.bySurface[n].groups[g]
          IN \A i, j \in DOMAIN list : i < j => list[i].id <= list[j].id

\* The items of the report in progress that have no comments since the last
\* run, each with the key of its surface.
QuietItems ==
  UNION {{<<report.bySurface[n].key, it>> :
            it \in Entries(ItemsInOrder(report.bySurface[n].groups))} :
         n \in DOMAIN report.bySurface}
C19_ScanHasNoDuplicates ==
  /\ qdone => \A i \in AllIds : CountId(qret, i) <= 1
  /\ \A n \in DOMAIN report.bySurface :
        \A i \in AllIds :
           CountId(ItemsInOrder(report.bySurface[n].groups), i) <= 1

\* C20: the file a sweeper run wrote differs from the file it loaded in
\* lastRunIso and in the seenIds maps of the configured surfaces only: a
\* top-level field main() does not know and the seenIds map of a surface key
\* outside the surface list are written back as they were loaded.
C20_CommitPassesThrough ==
  (script = "sweeper" /\ wrote /\ pc = "done") =>
     /\ file.kind = "json"
     /\ file.extra = fileAtStart.extra
     /\ file.otherSeen = fileAtStart.otherSeen
     /\ file.hasSeenIds = fileAtStart.hasSeenIds
\* A run committed over a file with a foreign field and a foreign seenIds
\* key, advancing lastRunIso and recording an item.
C20_Witness ==
  /\ pc = "done" /\ wrote /\ fileAtStart = ForeignFile
  /\ file.lastRunIso # fileAtStart.lastRunIso
  /\ file.seenIds["Tasks"] # <<>>
  /\ file.extra = 1 /\ file.otherSeen # <<>>

\* The report holds item i of surface k with the last_edited_time t (an item
\* whose payload carries no timestamps counts as well).
ReportedAt(rep, k, i, t) ==
  \E it \in Entries(ReportItems(rep, k)) :
     it.id = i /\ (it.last_edited_time = Null \/ it.last_edited_time >= t)
\* C21 as stated: no edit is lost when the watermark advances, whatever the
\* size of the delta: the first run, once it has committed its instant as the
\* next watermark, has reported every item edited before that instant (a later
\* run asks for edits at or after the watermark only).
C21_Original ==
  (pc = "done" /\ runs = 1) =>
     \A k \in SurfaceKeys : \A i \in IdsOf[k] :
        (remote[i].exists /\ remote[i].edited < Printed.ranAtIso) =>
           ReportedAt(Printed, k, i, remote[i].edited)
\* C21 amended: no edit is lost by a run whose delta fits the query cap.  A
\* successful run with the watermark W and the instant R commits R as the next
\* watermark, and on every surface where at most MAX_PAGES items carry an edit
\* at or after W its report holds every item last edited at t, W <= t < R,
\* with that last_edited_time; an edit at or after R falls to the next run.
C21_NoEditLostWithinCap ==
  (pc = "done") =>
     /\ file.lastRunIso = Printed.ranAtIso
     /\ \A k \in SurfaceKeys :
          Cardinality(Filtered(k, Printed.lastRunIso)) <= MAX_PAGES =>
             \A i \in IdsOf[k] :
                (/\ remote[i].exists
                 /\ remote[i].edited < Printed.ranAtIso
                 /\ (Printed.lastRunIso = Null \/ remote[i].edited >= Printed.lastRunIso)) =>
                   ReportedAt(Printed, k, i, remote[i].edited)
\* A second run, with a watermark, committed a report that holds a Tasks item
\* edited at the watermark, while another Tasks item was edited during the run.
C21_Witness ==
  /\ pc = "done" /\ Printed.lastRunIso # Null
  /\ Printed.lastRunIso < Printed.ranAtIso
  /\ \E i \in IdsOf["Tasks"] :
        /\ remote[i].exists /\ remote[i].edited = Printed.lastRunIso
        /\ ReportedAt(Printed, "Tasks", i, remote[i].edited)
  /\ \E i \in IdsOf["Tasks"] :
        remote[i].exists /\ remote[i].edited >= Printed.ranAtIso

\* C22 as stated: every sweeper run terminates, with a report or with an
\* error, whatever the gateway answers: a run that has started and whose
\* requests are all answered reaches the end of main() or its catch.
C22_RunTerminates ==
  (pc \in {"db", "query", "comments", "write"}) ~> (pc \in {"done", "failed"})

C24_FoundOnlyOnce ==
  /\ (pc \in {"w1write", "w2write"}) => FoundIds(findings) \cap foundBefore = {}
  /\ Len(wfile.seenCommentIds) <= MAX_COMMENTS_SEEN

====
